---- MODULE Spec2Model ----
(***************************************************************************)
(* Model of the AHTx0 sensor driver of read_ahtx0_rs (src/src/lib.rs).     *)
(*                                                                         *)
(* One acquisition (read_sensor_internal) is a sequence of blocking bus    *)
(* operations.  Each action below is one step of that sequence: a bus      *)
(* operation together with the code that runs until the next bus           *)
(* operation (delays, the loop bookkeeping, the early returns).  The       *)
(* device and the bus are the environment: whether an operation fails and  *)
(* which bytes a read returns.                                             *)
(*                                                                         *)
(* f64 values are represented exactly as integers in units of 2^-20: the   *)
(* decoder divides a 20-bit code by 2^20 (exact in binary floating point), *)
(* multiplies by 100 or 200 (at most 28 significant bits) and subtracts    *)
(* 50, so no f64 operation of from_raw_bytes rounds.                       *)
(***************************************************************************)
EXTENDS Integers, Sequences, FiniteSets, TLC

\* ---------------------------------------------------------------- bounds
\* number of stride-generated 20-bit codes added to the corner codes
MaxCodes == 2

\* ------------------------------------------------------ program constants
DEVICE_ADDRESS == 56        \* 0x38
CMD_SOFT_RESET == 186       \* 0xBA
CMD_TRIGGER == <<172, 51, 0>>   \* [0xAC, 0x33, 0x00]
STATUS_CALIBRATED == 8      \* 0x08
STATUS_BUSY == 128          \* 0x80
\* an off-by-one loop bound: for _ in 0..11
CalibrationPollsOffByOne == 10 + 1
CalibrationPolls == 10      \* for _ in 0..10 (wait_for_calibration)
\* an off-by-one loop bound: for _ in 0..=10
BusyPollsOffByOne == 10 + 1
\* an off-by-one loop bound: for _ in 1..10
BusyPollsShort == 10 - 1
BusyPolls == 10             \* for _ in 0..10 (read_temperature_humidity)
ResetDelayMs == 20
TriggerDelayMs == 80
PollDelayMs == 10
TwoPow20 == 1048576         \* 2_f64.powi(20)

\* ------------------------------------------------------------ bit helpers
RECURSIVE BitAnd(_, _)
BitAnd(a, b) ==
    IF a = 0 \/ b = 0 THEN 0
    ELSE (a % 2) * (b % 2) + 2 * BitAnd(a \div 2, b \div 2)

RECURSIVE BitOr(_, _)
BitOr(a, b) ==
    IF a = 0 THEN b
    ELSE IF b = 0 THEN a
    ELSE (IF (a % 2) + (b % 2) > 0 THEN 1 ELSE 0) + 2 * BitOr(a \div 2, b \div 2)

\* u32 shifts; the operands are bytes and the shift is at most 16, so the
\* 32-bit width is never exceeded
Shl(x, n) == x * (2 ^ n)
Shr(x, n) == x \div (2 ^ n)

\* zero-based indexing of a Rust array held as a TLA+ sequence
At(data, i) == data[i + 1]

\* the inclusive range a..=b written for the half-open one
RangeInclusive(a, b) == a .. b

\* Rust half-open range a..b
Range(a, b) == a .. (b - 1)

\* ---------------------------------------------------------------- decoder
\* the low nibble of byte 3 left in the humidity code (no >> 4)
raw_humidity_no_shift(data) ==
    BitOr(BitOr(Shl(At(data, 1), 12), Shl(At(data, 2), 4)), At(data, 3))

\* byte 1 shifted by 13 instead of 12
raw_humidity_wide_shift(data) ==
    BitOr(BitOr(Shl(At(data, 1), 13), Shl(At(data, 2), 4)), Shr(At(data, 3), 4))

\* RawSensorData::from_raw_bytes, lib.rs:160
raw_humidity(data) ==
    BitOr(BitOr(Shl(At(data, 1), 12), Shl(At(data, 2), 4)), Shr(At(data, 3), 4))

\* the temperature code unpacked with the humidity code's shifts
raw_temp_humidity_layout(data) ==
    BitOr(BitOr(Shl(At(data, 4), 12), Shl(At(data, 5), 4)), BitAnd(At(data, 3), 15))

\* RawSensorData::from_raw_bytes, lib.rs:161
raw_temp(data) ==
    BitOr(BitOr(Shl(BitAnd(At(data, 3), 15), 16), Shl(At(data, 4), 8)), At(data, 5))

\* the temperature without its -50.0 offset
from_raw_bytes_no_offset(data) ==
    [humidity    |-> raw_humidity(data) * 100,
     temperature |-> raw_temp(data) * 200]

\* RawSensorData::from_raw_bytes, lib.rs:162-164; values in units of 2^-20
from_raw_bytes(data) ==
    [humidity    |-> raw_humidity(data) * 100,
     temperature |-> raw_temp(data) * 200 - 50 * TwoPow20]

\* ------------------------------------------------------ status predicates
\* the status byte compared without masking it
IsCalibratedNoMask(s) == s = STATUS_CALIBRATED

\* the busy mask tested where the calibrated mask is meant
IsCalibratedWrongBit(s) == BitAnd(s, STATUS_BUSY) = STATUS_BUSY

\* wait_for_calibration, lib.rs:126
IsCalibrated(s) == BitAnd(s, STATUS_CALIBRATED) = STATUS_CALIBRATED

\* the status byte compared with 0 without masking it
NotBusyNoMask(s) == s = 0

\* the busy test inverted
NotBusyInverted(s) == BitAnd(s, STATUS_BUSY) # 0

\* read_temperature_humidity, lib.rs:142
NotBusy(s) == BitAnd(s, STATUS_BUSY) = 0

\* ------------------------------------------------------------ environment
\* causes an I2CError can carry
I2cCauses == {"Nack", "BusFault"}

\* status bytes the device can return: every combination of the busy and
\* calibrated flags, with and without other bits set (0x14 = bits 4 and 2)
StatusBytes == {n + f : n \in {0, 20}, f \in {0, 8, 128, 136}}

HasBit(b, m) == (b \div m) % 2 = 1

\* 20-bit codes the device can report: the corner codes, 0x80000, 0x08000
\* and multiples of 0x3C6EF
CodeSamples ==
    {0, TwoPow20 - 1, 524288, 32768}
        \cup {(k * 247535) % TwoPow20 : k \in 1..MaxCodes}

\* status byte (byte 0) of a 6-byte sample
Byte0Samples == {28, 0}     \* 0x1C, 0x00

\* the packing of the device's register file (the inverse of the decoder's
\* layout): byte1 = h[19:12], byte2 = h[11:4], byte3 = h[3:0]:t[19:16],
\* byte4 = t[15:8], byte5 = t[7:0]
Pack(h, t, b0) ==
    <<b0, h \div 4096, (h \div 16) % 256,
      (h % 16) * 16 + (t \div 65536), (t \div 256) % 256, t % 256>>

\* 6-byte samples the device can return
RawSamples == {Pack(h, t, b0) : h \in CodeSamples, t \in CodeSamples, b0 \in Byte0Samples}

\* ------------------------------------------------------------------ state
VARIABLES
    pc,        \* position in read_sensor_internal
    cal_i,     \* iterations completed by the loop of wait_for_calibration
    busy_i,    \* iterations completed by the loop of read_temperature_humidity
    status,    \* <<b>>: the byte returned by the last status(); <<>> before
    buffer,    \* the 6 bytes read by read_temperature_humidity; <<>> before
    result,    \* what read_sensor_internal returns
    log,       \* the calls made on self.i2c and self.delay, in order
    calAt,     \* device: first calibration poll that reports bit 3 set
    readyAt,   \* device: first busy poll that reports bit 7 clear
    other      \* a second, concurrent call of read_sensor_internal

vars == <<pc, cal_i, busy_i, status, buffer, result, log, calAt, readyAt, other>>

\* the 8-bit form of the address (0x38 << 1) passed where the 7-bit one is meant
BusWriteShiftedAddress(bytes, ok) ==
    [op |-> "write", addr |-> 2 * DEVICE_ADDRESS, bytes |-> bytes, len |-> Len(bytes),
     ms |-> 0, ok |-> ok]

\* entries of log
BusWrite(bytes, ok) ==
    [op |-> "write", addr |-> DEVICE_ADDRESS, bytes |-> bytes, len |-> Len(bytes),
     ms |-> 0, ok |-> ok]
BusRead(len, ok) ==
    [op |-> "read", addr |-> DEVICE_ADDRESS, bytes |-> <<>>, len |-> len,
     ms |-> 0, ok |-> ok]
\* delay_us called with the millisecond count: the sleep lasts ms / 1000 ms
DelayMsAsMicros(ms) ==
    [op |-> "delay", addr |-> 0, bytes |-> <<>>, len |-> 0, ms |-> ms \div 1000,
     ok |-> TRUE]
DelayMs(ms) ==
    [op |-> "delay", addr |-> 0, bytes |-> <<>>, len |-> 0, ms |-> ms, ok |-> TRUE]

\* values of result
Pending == [tag |-> "Pending", err |-> "", cause |-> "",
            temperature |-> 0, humidity |-> 0, status_code |-> 0]
Ok(reading) == [tag |-> "Ok", err |-> "", cause |-> "",
                temperature |-> reading.temperature,
                humidity |-> reading.humidity, status_code |-> 0]
Err(e, c) == [tag |-> "Err", err |-> e, cause |-> c,
              temperature |-> 0, humidity |-> 0, status_code |-> 0]

\* the error record built with status_code 0, the success code
read_ahtx0_sensor_error_zero ==
    IF result.tag = "Ok"
    THEN [temperature |-> result.temperature, humidity |-> result.humidity,
          status_code |-> result.status_code]
    ELSE [temperature |-> 1000 * TwoPow20, humidity |-> 1000 * TwoPow20,
          status_code |-> 0]

\* read_ahtx0_sensor, lib.rs:38-52: the SensorReading handed to the foreign
\* caller once read_sensor_internal has returned result (1000.0 is
\* 1000 * 2^20 in units of 2^-20)
read_ahtx0_sensor ==
    IF result.tag = "Ok"
    THEN [temperature |-> result.temperature, humidity |-> result.humidity,
          status_code |-> result.status_code]
    ELSE [temperature |-> 1000 * TwoPow20, humidity |-> 1000 * TwoPow20,
          status_code |-> -1]

\* the failure converted to the wrong variant of InternalError
PropagateAsCalibrationFailed(c) ==
    /\ pc' = "done"
    /\ result' = Err("CalibrationFailed", "")

\* the error of a failed bus call dropped, so that the call is made again
PropagateSwallowed(c) == UNCHANGED <<pc, result>>

\* the `?` operator on a failed bus call: InternalError::I2c(#[from] I2CError)
\* is returned from read_sensor_internal at once
Propagate(c) ==
    /\ pc' = "done"
    /\ result' = Err("I2c", c)

\* the bytes the device answers to the k-th status read of a phase
DeviceStatus(phase, k) ==
    IF phase = "calibration"
    THEN {b \in StatusBytes : HasBit(b, 8) <=> (k >= calAt)}
    ELSE {b \in StatusBytes : HasBit(b, 128) <=> (k < readyAt)}

\* the second caller's state: its position, its two loop variables and the
\* kind of result it returned
Caller(p, ci, bi, r) == [pc |-> p, cal_i |-> ci, busy_i |-> bi, res |-> r]
\* no second call is made
NoCaller == Caller("idle", 0, 0, "")

Init ==
    /\ pc = "open"
    /\ cal_i = 0
    /\ busy_i = 0
    /\ status = <<>>
    /\ buffer = <<>>
    /\ result = Pending
    /\ log = <<>>
    /\ calAt \in 1..(CalibrationPolls + 1)
    /\ readyAt \in 1..(BusyPolls + 1)
    /\ other = NoCaller

\* ---------------------------------------------------------------- actions
\* read_sensor_internal, lib.rs:83-84
I2cdev_new ==
    /\ pc = "open"
    /\ \/ /\ pc' = "soft_reset"
          /\ UNCHANGED result
       \/ \E c \in I2cCauses : Propagate(c)
    /\ UNCHANGED <<cal_i, busy_i, status, buffer, log, calAt, readyAt, other>>

\* soft_reset without its settle delay
soft_reset_no_delay ==
    /\ pc = "soft_reset"
    /\ \/ /\ log' = Append(log, BusWrite(<<CMD_SOFT_RESET>>, TRUE))
          /\ pc' = "wait_for_calibration"
          /\ UNCHANGED result
       \/ \E c \in I2cCauses :
          /\ log' = Append(log, BusWrite(<<CMD_SOFT_RESET>>, FALSE))
          /\ Propagate(c)
    /\ UNCHANGED <<cal_i, busy_i, status, buffer, calAt, readyAt, other>>

\* Ahtx0::new -> soft_reset, lib.rs:104-105, 110-115
soft_reset ==
    /\ pc = "soft_reset"
    /\ \/ /\ log' = log \o <<BusWrite(<<CMD_SOFT_RESET>>, TRUE), DelayMs(ResetDelayMs)>>
          /\ pc' = "wait_for_calibration"
          /\ UNCHANGED result
       \/ \E c \in I2cCauses :
          /\ log' = Append(log, BusWrite(<<CMD_SOFT_RESET>>, FALSE))
          /\ Propagate(c)
    /\ UNCHANGED <<cal_i, busy_i, status, buffer, calAt, readyAt, other>>

\* wait_for_calibration with an automatic retry: when the 10 polls are
\* used up the device is reset again and polled anew
wait_for_calibration_retry ==
    /\ pc = "wait_for_calibration"
    /\ cal_i \in Range(0, CalibrationPolls)
    /\ \/ \E b \in DeviceStatus("calibration", cal_i + 1) :
          /\ status' = <<b>>
          /\ IF IsCalibrated(b)
             THEN /\ log' = Append(log, BusRead(1, TRUE))
                  /\ pc' = "trigger"
                  /\ UNCHANGED <<cal_i, result>>
             ELSE /\ log' = log \o <<BusRead(1, TRUE), DelayMs(PollDelayMs)>>
                  /\ IF cal_i + 1 \in Range(0, CalibrationPolls)
                     THEN cal_i' = cal_i + 1 /\ UNCHANGED <<pc, result>>
                     ELSE cal_i' = 0 /\ pc' = "soft_reset" /\ UNCHANGED result
       \/ \E c \in I2cCauses :
          /\ log' = Append(log, BusRead(1, FALSE))
          /\ Propagate(c)
          /\ UNCHANGED <<cal_i, status>>
    /\ UNCHANGED <<busy_i, buffer, calAt, readyAt, other>>

\* one iteration of the loop of wait_for_calibration, lib.rs:123-132, with
\* status(), lib.rs:117-121, and the return to Ahtx0::new, lib.rs:106-107
wait_for_calibration ==
    /\ pc = "wait_for_calibration"
    /\ cal_i \in Range(0, CalibrationPolls)
    /\ \/ \E b \in DeviceStatus("calibration", cal_i + 1) :
          /\ status' = <<b>>
          /\ IF IsCalibrated(b)
             THEN /\ log' = Append(log, BusRead(1, TRUE))
                  /\ pc' = "trigger"
                  /\ UNCHANGED <<cal_i, result>>
             ELSE /\ log' = log \o <<BusRead(1, TRUE), DelayMs(PollDelayMs)>>
                  /\ cal_i' = cal_i + 1
                  /\ IF cal_i + 1 \in Range(0, CalibrationPolls)
                     THEN UNCHANGED <<pc, result>>
                     ELSE /\ pc' = "done"
                          /\ result' = Err("CalibrationFailed", "")
       \/ \E c \in I2cCauses :
          /\ log' = Append(log, BusRead(1, FALSE))
          /\ Propagate(c)
          /\ UNCHANGED <<cal_i, status>>
    /\ UNCHANGED <<busy_i, buffer, calAt, readyAt, other>>

\* read_temperature_humidity up to its loop, lib.rs:138-139
trigger ==
    /\ pc = "trigger"
    /\ \/ /\ log' = log \o <<BusWrite(CMD_TRIGGER, TRUE), DelayMs(TriggerDelayMs)>>
          /\ pc' = "wait_busy"
          /\ UNCHANGED result
       \/ \E c \in I2cCauses :
          /\ log' = Append(log, BusWrite(CMD_TRIGGER, FALSE))
          /\ Propagate(c)
    /\ UNCHANGED <<cal_i, busy_i, status, buffer, calAt, readyAt, other>>

\* the status read of one iteration of the loop of
\* read_temperature_humidity, lib.rs:141-142, 147-149
wait_busy ==
    /\ pc = "wait_busy"
    /\ busy_i \in Range(0, BusyPolls)
    /\ \/ \E b \in DeviceStatus("busy", busy_i + 1) :
          /\ status' = <<b>>
          /\ IF NotBusy(b)
             THEN /\ log' = Append(log, BusRead(1, TRUE))
                  /\ pc' = "read_data"
                  /\ UNCHANGED <<busy_i, result>>
             ELSE /\ log' = log \o <<BusRead(1, TRUE), DelayMs(PollDelayMs)>>
                  /\ busy_i' = busy_i + 1
                  /\ IF busy_i + 1 \in Range(0, BusyPolls)
                     THEN UNCHANGED <<pc, result>>
                     ELSE /\ pc' = "done"
                          /\ result' = Err("SensorStillBusy", "")
       \/ \E c \in I2cCauses :
          /\ log' = Append(log, BusRead(1, FALSE))
          /\ Propagate(c)
          /\ UNCHANGED <<busy_i, status>>
    /\ UNCHANGED <<cal_i, buffer, calAt, readyAt, other>>

\* the 6-byte read and the decode, lib.rs:143-145, and the Ok of
\* read_sensor_internal, lib.rs:87-93
read_data ==
    /\ pc = "read_data"
    /\ \/ \E data \in RawSamples :
          /\ buffer' = data
          /\ log' = Append(log, BusRead(6, TRUE))
          /\ pc' = "done"
          /\ result' = Ok(from_raw_bytes(data))
       \/ \E c \in I2cCauses :
          /\ log' = Append(log, BusRead(6, FALSE))
          /\ Propagate(c)
          /\ UNCHANGED buffer
    /\ UNCHANGED <<cal_i, busy_i, status, calAt, readyAt, other>>

Next ==
    \/ I2cdev_new
    \/ soft_reset
    \/ wait_for_calibration
    \/ trigger
    \/ wait_busy
    \/ read_data

Spec == Init /\ [][Next]_vars

\* the code is straight-line and blocking: whenever a step is possible the
\* thread takes one
FairSpec == Spec /\ WF_vars(Next)

\* ------------------------------------------- two concurrent acquisitions
\* read_ahtx0_sensor is an extern "C" function with no lock: a second thread
\* may call it while a first call is running.  Each call opens its own
\* I2cdev on /dev/i2c-1 and drives the device at 0x38.  The second call runs
\* the same code; its steps are those of the first, with the device's
\* answers unconstrained and only the position, the loop variables and the
\* kind of result kept.  Which thread takes the next step is the scheduler's
\* choice.
first == <<pc, cal_i, busy_i, status, buffer, result, log, calAt, readyAt>>

InitConcurrent ==
    /\ pc = "open"
    /\ cal_i = 0
    /\ busy_i = 0
    /\ status = <<>>
    /\ buffer = <<>>
    /\ result = Pending
    /\ log = <<>>
    /\ calAt \in 1..2
    /\ readyAt \in 1..2
    /\ other = Caller("open", 0, 0, "")

\* read_sensor_internal, lib.rs:83-84
other_I2cdev_new ==
    /\ other.pc = "open"
    /\ \/ other' = [other EXCEPT !.pc = "soft_reset"]
       \/ other' = [other EXCEPT !.pc = "done", !.res = "I2c"]
    /\ UNCHANGED first

\* Ahtx0::soft_reset, lib.rs:110-115
other_soft_reset ==
    /\ other.pc = "soft_reset"
    /\ \/ other' = [other EXCEPT !.pc = "wait_for_calibration"]
       \/ other' = [other EXCEPT !.pc = "done", !.res = "I2c"]
    /\ UNCHANGED first

\* Ahtx0::wait_for_calibration, lib.rs:123-132
other_wait_for_calibration ==
    /\ other.pc = "wait_for_calibration"
    /\ other.cal_i \in Range(0, CalibrationPolls)
    /\ \/ \E b \in StatusBytes :
            IF IsCalibrated(b)
            THEN other' = [other EXCEPT !.pc = "trigger"]
            ELSE IF other.cal_i + 1 \in Range(0, CalibrationPolls)
            THEN other' = [other EXCEPT !.cal_i = @ + 1]
            ELSE other' = [other EXCEPT !.cal_i = @ + 1, !.pc = "done",
                                        !.res = "CalibrationFailed"]
       \/ other' = [other EXCEPT !.pc = "done", !.res = "I2c"]
    /\ UNCHANGED first

\* Ahtx0::read_temperature_humidity, lib.rs:138-139
other_trigger ==
    /\ other.pc = "trigger"
    /\ \/ other' = [other EXCEPT !.pc = "wait_busy"]
       \/ other' = [other EXCEPT !.pc = "done", !.res = "I2c"]
    /\ UNCHANGED first

\* Ahtx0::read_temperature_humidity, lib.rs:141-142, 147-149
other_wait_busy ==
    /\ other.pc = "wait_busy"
    /\ other.busy_i \in Range(0, BusyPolls)
    /\ \/ \E b \in StatusBytes :
            IF NotBusy(b)
            THEN other' = [other EXCEPT !.pc = "read_data"]
            ELSE IF other.busy_i + 1 \in Range(0, BusyPolls)
            THEN other' = [other EXCEPT !.busy_i = @ + 1]
            ELSE other' = [other EXCEPT !.busy_i = @ + 1, !.pc = "done",
                                        !.res = "SensorStillBusy"]
       \/ other' = [other EXCEPT !.pc = "done", !.res = "I2c"]
    /\ UNCHANGED first

\* Ahtx0::read_temperature_humidity, lib.rs:143-145
other_read_data ==
    /\ other.pc = "read_data"
    /\ \/ other' = [other EXCEPT !.pc = "done", !.res = "Ok"]
       \/ other' = [other EXCEPT !.pc = "done", !.res = "I2c"]
    /\ UNCHANGED first

NextConcurrent ==
    \/ I2cdev_new
    \/ soft_reset
    \/ wait_for_calibration
    \/ trigger
    \/ wait_busy
    \/ read_data
    \/ other_I2cdev_new
    \/ other_soft_reset
    \/ other_wait_for_calibration
    \/ other_trigger
    \/ other_wait_busy
    \/ other_read_data

ConcurrentSpec == InitConcurrent /\ [][NextConcurrent]_vars

TypeOK ==
    /\ pc \in {"open", "soft_reset", "wait_for_calibration", "trigger",
               "wait_busy", "read_data", "done"}
    /\ cal_i \in 0..CalibrationPolls
    /\ busy_i \in 0..BusyPolls
    /\ Len(status) \in {0, 1}
    /\ Len(buffer) \in {0, 6}
    /\ result.tag \in {"Pending", "Ok", "Err"}

\* ------------------------------------------------- reading the bus trace
IsStatusRead(e) == e.op = "read" /\ e.len = 1
IsDataRead(e) == e.op = "read" /\ e.len = 6
IsResetWrite(e) == e.op = "write" /\ e.bytes = <<186>>
IsTriggerWrite(e) == e.op = "write" /\ e.bytes = <<172, 51, 0>>
IsBusOp(e) == e.op \in {"read", "write"}

ResetWrites == {i \in DOMAIN log : IsResetWrite(log[i])}
TriggerWrites == {i \in DOMAIN log : IsTriggerWrite(log[i])}
DataReads == {i \in DOMAIN log : IsDataRead(log[i])}
\* status reads of the calibration loop: those before any trigger write
CalReads ==
    {i \in DOMAIN log : IsStatusRead(log[i]) /\ \A j \in TriggerWrites : i < j}
\* status reads of the busy loop: those after the trigger write
BusyReads ==
    {i \in DOMAIN log : IsStatusRead(log[i]) /\ \E j \in TriggerWrites : j < i}
AllOk == \A i \in DOMAIN log : log[i].ok

\* the n-th (1-based) element of a set of trace positions
Nth(S, n) == CHOOSE i \in S : Cardinality({j \in S : j <= i}) = n

\* n polls that did not satisfy their loop: a one-byte read, then 10 ms
UnsatisfiedPolls(n) ==
    [i \in 1..(2 * n) |-> IF i % 2 = 1 THEN BusRead(1, TRUE) ELSE DelayMs(10)]

Terminal == pc = "done"

\* ----------------------------------------------------------------- claims

\* C1: calibration timeout.  When the reset write succeeds and every status
\* read succeeds with bit 3 clear (the device sets it at no poll up to the
\* 10th), the acquisition ends with CalibrationFailed, and the bus trace is
\* exactly: one reset write, the 20 ms delay, then 10 one-byte status reads
\* each followed by the 10 ms delay.
CalibrationTimeout ==
    (Terminal /\ calAt > 10 /\ ResetWrites # {} /\ AllOk) =>
        /\ result.tag = "Err"
        /\ result.err = "CalibrationFailed"
        /\ log = <<BusWrite(<<186>>, TRUE), DelayMs(20)>> \o UnsatisfiedPolls(10)
        /\ Cardinality(ResetWrites) = 1
        /\ Cardinality(CalReads) = 10

CalibrationTimeoutWitness ==
    /\ Terminal
    /\ calAt > 10
    /\ AllOk
    /\ result.err = "CalibrationFailed"
    /\ Cardinality(CalReads) = 10

\* C2: busy timeout.  When the trigger write succeeds and every status read
\* of the busy loop succeeds with bit 7 set, the acquisition ends with
\* SensorStillBusy; from the trigger write on, the bus trace is exactly the
\* trigger write, the 80 ms delay and 10 one-byte status reads each followed
\* by the 10 ms delay, and no 6-byte read is issued.
BusyTimeout ==
    (Terminal /\ readyAt > 10 /\ TriggerWrites # {} /\ AllOk) =>
        /\ result.tag = "Err"
        /\ result.err = "SensorStillBusy"
        /\ Cardinality(TriggerWrites) = 1
        /\ SubSeq(log, Nth(TriggerWrites, 1), Len(log))
             = <<BusWrite(<<172, 51, 0>>, TRUE), DelayMs(80)>> \o UnsatisfiedPolls(10)
        /\ Cardinality(BusyReads) = 10
        /\ DataReads = {}

BusyTimeoutWitness ==
    /\ Terminal
    /\ readyAt > 10
    /\ AllOk
    /\ result.err = "SensorStillBusy"
    /\ Cardinality(BusyReads) = 10

\* C3: early success.  In either loop, when the n-th status read (n < 10) is
\* the first that satisfies the loop's condition and it succeeds, the loop
\* has issued exactly n status reads and is left: no state holds a further
\* status read of that loop.
EarlySuccess ==
    /\ (/\ calAt < 10
        /\ Cardinality(CalReads) >= calAt
        /\ log[Nth(CalReads, calAt)].ok)
         => /\ Cardinality(CalReads) = calAt
            /\ pc # "wait_for_calibration"
    /\ (/\ readyAt < 10
        /\ Cardinality(BusyReads) >= readyAt
        /\ log[Nth(BusyReads, readyAt)].ok)
         => /\ Cardinality(BusyReads) = readyAt
            /\ pc # "wait_busy"

EarlySuccessWitness ==
    /\ Terminal
    /\ result.tag = "Ok"
    /\ calAt = 3
    /\ readyAt = 4
    /\ Cardinality(CalReads) = 3
    /\ Cardinality(BusyReads) = 4

\* C4: communication failure propagation.  A failed bus operation is the
\* last entry of the trace (no bus operation, retry or delay follows it) and
\* the acquisition has ended with the I2c error carrying the bus's cause.
CommunicationFailurePropagates ==
    \A i \in DOMAIN log :
        ~log[i].ok =>
            /\ i = Len(log)
            /\ Terminal
            /\ result.tag = "Err"
            /\ result.err = "I2c"
            /\ result.cause \in I2cCauses

CommunicationFailureWitness ==
    /\ Len(log) > 0
    /\ IsDataRead(log[Len(log)])
    /\ ~log[Len(log)].ok
    /\ result.err = "I2c"

\* C5: calibration before trigger.  Whenever the trace holds a trigger write,
\* a successful status read issued after the successful reset write and before
\* the trigger returned a byte with bit 3 set (it is at or after the first
\* poll at which the device reports calibrated), and it is the bus operation
\* right before the trigger.
CalibrationBeforeTrigger ==
    \A t \in TriggerWrites :
        /\ t > 1
        /\ IsStatusRead(log[t - 1])
        /\ log[t - 1].ok
        /\ Cardinality({r \in CalReads : r < t}) >= calAt
        /\ \E w \in ResetWrites : w < t - 1 /\ log[w].ok

CalibrationBeforeTriggerWitness ==
    /\ TriggerWrites # {}
    /\ calAt = 5
    /\ Cardinality(CalReads) = 5

\* C6: a measurement comes from a sample read while the device was not
\* busy.  A 6-byte read is the last entry of the trace, the only one, and
\* the entry before it is a successful status read whose byte (still held in
\* status) has bit 7 clear; a successful acquisition holds exactly one
\* successful 6-byte read and returns the decoding of the bytes it delivered.
MeasurementOnlyWhenNotBusy ==
    /\ \A d \in DataReads :
          /\ d = Len(log)
          /\ d > 1
          /\ IsStatusRead(log[d - 1])
          /\ log[d - 1].ok
          /\ Len(status) = 1
          /\ ~HasBit(status[1], 128)
          /\ Cardinality(BusyReads) >= readyAt
    /\ Cardinality(DataReads) <= 1
    /\ result.tag = "Ok" =>
          /\ Cardinality(DataReads) = 1
          /\ \A d \in DataReads : log[d].ok
          /\ Len(buffer) = 6
          /\ result.humidity = from_raw_bytes(buffer).humidity
          /\ result.temperature = from_raw_bytes(buffer).temperature

MeasurementOnlyWhenNotBusyWitness ==
    /\ result.tag = "Ok"
    /\ readyAt = 2
    /\ Cardinality(BusyReads) = 2
    /\ status = <<8>>
    /\ buffer = Pack(247535, 495070, 28)

\* C7: every acquisition terminates.  Whatever the device answers, the
\* acquisition reaches "done" with a Measurement or with one of the three
\* errors; the trace never holds more than 1 reset write, 10 calibration
\* status reads, 1 trigger write, 10 busy status reads and 1 data read; and
\* no step is taken from a terminal state.
AcquisitionTerminates ==
    /\ <>Terminal
    /\ [](Terminal =>
            \/ result.tag = "Ok"
            \/ /\ result.tag = "Err"
               /\ result.err \in {"I2c", "CalibrationFailed", "SensorStillBusy"})
    /\ [](/\ Cardinality(ResetWrites) <= 1
          /\ Cardinality(CalReads) <= 10
          /\ Cardinality(TriggerWrites) <= 1
          /\ Cardinality(BusyReads) <= 10
          /\ Cardinality(DataReads) <= 1)
    /\ [][~Terminal]_vars

AcquisitionTerminatesWitness ==
    /\ Terminal
    /\ result.tag = "Ok"
    /\ Cardinality(ResetWrites) = 1
    /\ Cardinality(CalReads) = 10
    /\ Cardinality(TriggerWrites) = 1
    /\ Cardinality(BusyReads) = 10
    /\ Cardinality(DataReads) = 1

\* the sample [0x1C, 0x80, 0x00, 0x00, 0x80, 0x00]
KnownVector == <<28, 128, 0, 0, 128, 0>>

\* C8 as stated: the known vector decodes to humidity code 0x80000 and
\* 50.0 %RH, and to temperature code 0x80000 and 50.0 degrees Celsius.
KnownVectorAsStated ==
    (result.tag = "Ok" /\ buffer = KnownVector) =>
        /\ raw_humidity(buffer) = 524288
        /\ result.humidity = 50 * 1048576
        /\ raw_temp(buffer) = 524288
        /\ result.temperature = 50 * 1048576

\* C8, amended: the known vector decodes to humidity code 0x80000 and
\* 50.0 %RH, and to temperature code 0x08000 and -43.75 degrees Celsius
\* (-43.75 * 2^20 = -45875200); the same holds with any other byte 0.
KnownVectorDecode ==
    (/\ result.tag = "Ok"
     /\ \E b0 \in 0..255 : buffer = <<b0>> \o Tail(KnownVector)) =>
        /\ raw_humidity(buffer) = 524288
        /\ result.humidity = 50 * 1048576
        /\ raw_temp(buffer) = 32768
        /\ result.temperature = -45875200

KnownVectorWitness ==
    /\ result.tag = "Ok"
    /\ buffer = KnownVector

\* C9: decoder packing round trip.  When the sample read is the packing of a
\* humidity code h and a temperature code t, with any byte 0, the decoder
\* recovers exactly h and t, and returns h*100/2^20 and t*200/2^20 - 50.
PackingRoundTrip ==
    result.tag = "Ok" =>
        \A h \in CodeSamples, t \in CodeSamples, b0 \in Byte0Samples :
            buffer = Pack(h, t, b0) =>
                /\ raw_humidity(buffer) = h
                /\ raw_temp(buffer) = t
                /\ result.humidity = h * 100
                /\ result.temperature = t * 200 - 50 * 1048576

PackingRoundTripWitness ==
    /\ result.tag = "Ok"
    /\ buffer = Pack(1048575, 247535, 0)
    /\ result.humidity = 104857500

\* C10: boundary codes.  Humidity code 0 decodes to exactly 0.0 and 0xFFFFF
\* to 100*(2^20-1)/2^20, which is 99.99990 to five decimals; temperature code
\* 0 decodes to exactly -50.0 and 0xFFFFF to 200*(2^20-1)/2^20 - 50, which is
\* 149.99981 to five decimals.
BoundaryCodes ==
    result.tag = "Ok" =>
        \A c \in CodeSamples, b0 \in Byte0Samples :
            /\ buffer = Pack(0, c, b0) => result.humidity = 0
            /\ buffer = Pack(1048575, c, b0) =>
                  /\ result.humidity = 100 * 1048575
                  /\ 95 * 1048576 < (100 * 1048576 - result.humidity) * 1000000
                  /\ (100 * 1048576 - result.humidity) * 1000000 <= 105 * 1048576
            /\ buffer = Pack(c, 0, b0) => result.temperature = -50 * 1048576
            /\ buffer = Pack(c, 1048575, b0) =>
                  /\ result.temperature = 200 * 1048575 - 50 * 1048576
                  /\ 185 * 1048576 < (150 * 1048576 - result.temperature) * 1000000
                  /\ (150 * 1048576 - result.temperature) * 1000000 <= 195 * 1048576

BoundaryCodesWitness ==
    /\ result.tag = "Ok"
    /\ buffer = Pack(1048575, 0, 28)
    /\ result.temperature = -52428800

\* an acquisition is in progress on the device from its successful reset
\* write until it is terminal
FirstInProgress == ~Terminal /\ \E w \in ResetWrites : log[w].ok
OtherInProgress ==
    other.pc \in {"wait_for_calibration", "trigger", "wait_busy", "read_data"}

\* C11: exclusive access under concurrency.  Two acquisitions are never in
\* progress on the device at once: the reset write of one never reaches the
\* device between the reset write of the other and that one's terminal
\* state, so no bus operation of one falls between two of the other.
ExclusiveAccess == ~(FirstInProgress /\ OtherInProgress)

\* the protocol reached Decoded: the reset write, a status read at or after
\* the device's first calibrated answer, the trigger write, a status read at
\* or after the device's first not-busy answer and the 6-byte read all
\* succeeded
Decoded ==
    /\ AllOk
    /\ ResetWrites # {}
    /\ Cardinality(CalReads) >= calAt
    /\ TriggerWrites # {}
    /\ Cardinality(BusyReads) >= readyAt
    /\ DataReads # {}

\* C12: no partial measurement at the FFI boundary.  When the acquisition
\* has ended, read_ahtx0_sensor returns status_code 0 exactly when the
\* protocol reached Decoded, and then the decoded temperature and humidity;
\* otherwise it returns status_code -1 with temperature = humidity = 1000.0.
NoPartialMeasurement ==
    Terminal =>
        /\ read_ahtx0_sensor.status_code = 0 <=> Decoded
        /\ read_ahtx0_sensor.status_code = 0 =>
              /\ read_ahtx0_sensor.temperature = from_raw_bytes(buffer).temperature
              /\ read_ahtx0_sensor.humidity = from_raw_bytes(buffer).humidity
        /\ read_ahtx0_sensor.status_code # 0 =>
              /\ result.tag = "Err"
              /\ result.err \in {"I2c", "CalibrationFailed", "SensorStillBusy"}
              /\ read_ahtx0_sensor.status_code = -1
              /\ read_ahtx0_sensor.temperature = 1000 * 1048576
              /\ read_ahtx0_sensor.humidity = 1000 * 1048576

NoPartialMeasurementWitness ==
    /\ Terminal
    /\ result.err = "SensorStillBusy"
    /\ buffer = <<>>
    /\ read_ahtx0_sensor.status_code = -1
    /\ read_ahtx0_sensor.humidity = 1048576000

\* the bus operations of the trace, without the delays and without their
\* outcome
BusOps == SelectSeq(log, IsBusOp)
Kind(e) == <<e.op, e.addr, e.bytes, e.len>>
KindsOf(ops) == [i \in DOMAIN ops |-> Kind(ops[i])]
StatusReadKind == <<"read", 56, <<>>, 1>>
\* one write of 0xBA, nc status reads, one write of 0xAC 0x33 0x00, nb status
\* reads, one 6-byte read, all at address 0x38
ProtocolSequence(nc, nb) ==
    <<<<"write", 56, <<186>>, 1>>>>
        \o [i \in 1..nc |-> StatusReadKind]
        \o <<<<"write", 56, <<172, 51, 0>>, 3>>>>
        \o [i \in 1..nb |-> StatusReadKind]
        \o <<<<"read", 56, <<>>, 6>>>>
IsPrefix(a, b) == Len(a) <= Len(b) /\ a = SubSeq(b, 1, Len(a))

\* the place of a position in the order Reset, AwaitingCalibration,
\* Calibrated, Triggered/AwaitingReady, Ready, Decoded or Failed
StateRank(p) ==
    CASE p = "open" -> 0
      [] p = "soft_reset" -> 1
      [] p = "wait_for_calibration" -> 2
      [] p = "trigger" -> 3
      [] p = "wait_busy" -> 4
      [] p = "read_data" -> 5
      [] p = "done" -> 6

\* C13: protocol order.  The bus operations of an acquisition are a prefix
\* of: a write of 0xBA, 1 to 10 one-byte reads, a write of 0xAC 0x33 0x00,
\* 1 to 10 one-byte reads, a 6-byte read, all at address 0x38; and the
\* position never moves backward in the order of the states.
ProtocolOrder ==
    /\ [](\E nc \in 1..10, nb \in 1..10 :
            IsPrefix(KindsOf(BusOps), ProtocolSequence(nc, nb)))
    /\ [][StateRank(pc') >= StateRank(pc)]_vars

ProtocolOrderWitness ==
    /\ result.tag = "Ok"
    /\ KindsOf(BusOps) = ProtocolSequence(4, 10)

TimedOut == result.err \in {"CalibrationFailed", "SensorStillBusy"}
\* the handle exists: I2cdev::new succeeded and Ahtx0::new has written
BusOpened == log # <<>>

\* C14: no auto-retry.  On an opened bus the soft-reset command is written
\* exactly once (the first entry of the trace) and the trigger command at
\* most once; once CalibrationFailed or SensorStillBusy is produced the
\* acquisition is over with the timed-out status read as its last bus
\* operation, no later step adds a bus operation or changes the result, and
\* the caller receives that failure (status_code -1 across the FFI).
NoAutoRetry ==
    /\ [](BusOpened =>
            /\ Cardinality(ResetWrites) = 1
            /\ IsResetWrite(log[1])
            /\ Cardinality(TriggerWrites) <= 1)
    /\ [](TimedOut =>
            /\ Terminal
            /\ result.tag = "Err"
            /\ IsStatusRead(BusOps[Len(BusOps)])
            /\ (result.err = "CalibrationFailed" => TriggerWrites = {})
            /\ DataReads = {}
            /\ read_ahtx0_sensor.status_code = -1)
    /\ [][TimedOut => (log' = log /\ result' = result)]_vars

NoAutoRetryWitness ==
    /\ result.err = "CalibrationFailed"
    /\ Cardinality(ResetWrites) = 1
    /\ Cardinality(CalReads) = 10
    /\ TriggerWrites = {}

\* C15: only the flag bits matter.  The outcome of a status-read step (the
\* trace, the position, the loop variable, the result) is a function of the
\* state before it, of whether the read succeeded and of bit 3 alone in the
\* calibration poll, of bit 7 alone in the busy poll.  Two runs whose bytes
\* agree on those bits and whose bus operations succeed or fail alike
\* therefore issue the same bus operations and end alike.  In particular a
\* byte with bit 3 set confirms calibration whatever bit 7 is, and a byte
\* with bit 7 clear leads to the 6-byte read whatever bit 3 is.
OnlyFlagBitsMatter ==
    [][/\ (pc = "wait_for_calibration" /\ log' # log) =>
            IF ~log'[Len(log) + 1].ok
            THEN /\ log' = Append(log, BusRead(1, FALSE))
                 /\ pc' = "done"
                 /\ result'.err = "I2c"
            ELSE IF HasBit(status'[1], 8)
            THEN /\ log' = Append(log, BusRead(1, TRUE))
                 /\ pc' = "trigger"
                 /\ cal_i' = cal_i
                 /\ result' = result
            ELSE /\ log' = log \o <<BusRead(1, TRUE), DelayMs(10)>>
                 /\ cal_i' = cal_i + 1
                 /\ IF cal_i + 1 < 10
                    THEN pc' = pc /\ result' = result
                    ELSE pc' = "done" /\ result'.err = "CalibrationFailed"
       /\ (pc = "wait_busy" /\ log' # log) =>
            IF ~log'[Len(log) + 1].ok
            THEN /\ log' = Append(log, BusRead(1, FALSE))
                 /\ pc' = "done"
                 /\ result'.err = "I2c"
            ELSE IF ~HasBit(status'[1], 128)
            THEN /\ log' = Append(log, BusRead(1, TRUE))
                 /\ pc' = "read_data"
                 /\ busy_i' = busy_i
                 /\ result' = result
            ELSE /\ log' = log \o <<BusRead(1, TRUE), DelayMs(10)>>
                 /\ busy_i' = busy_i + 1
                 /\ IF busy_i + 1 < 10
                    THEN pc' = pc /\ result' = result
                    ELSE pc' = "done" /\ result'.err = "SensorStillBusy"
      ]_vars

\* the busy poll left for the 6-byte read on a byte with busy clear,
\* calibrated clear and other bits set (0x14)
OnlyFlagBitsMatterWitness ==
    /\ pc = "read_data"
    /\ status = <<20>>

IsDelayOf(e, ms) == e.op = "delay" /\ e.ms = ms

\* C16: settle delays are not skippable.  A successful reset write is
\* followed at once by a 20 ms delay and a successful trigger write by an
\* 80 ms delay; a failed write is followed by nothing; and every status read
\* comes after the settle delay of its phase, the first one directly after.
SettleDelays ==
    LET cal == CalReads
        busy == BusyReads
    IN  /\ \A i \in DOMAIN log :
              /\ (IsResetWrite(log[i]) /\ log[i].ok) =>
                    i < Len(log) /\ IsDelayOf(log[i + 1], 20)
              /\ (IsTriggerWrite(log[i]) /\ log[i].ok) =>
                    i < Len(log) /\ IsDelayOf(log[i + 1], 80)
              /\ ((IsResetWrite(log[i]) \/ IsTriggerWrite(log[i])) /\ ~log[i].ok) =>
                    i = Len(log)
        /\ cal # {} =>
              \E w \in ResetWrites :
                  /\ log[w].ok
                  /\ IsDelayOf(log[w + 1], 20)
                  /\ w + 2 \in cal
                  /\ \A i \in cal : i >= w + 2
        /\ busy # {} =>
              \E w \in TriggerWrites :
                  /\ log[w].ok
                  /\ IsDelayOf(log[w + 1], 80)
                  /\ w + 2 \in busy
                  /\ \A i \in busy : i >= w + 2

SettleDelaysWitness ==
    /\ result.tag = "Ok"
    /\ IsDelayOf(log[2], 20)
    /\ IsStatusRead(log[3])
    /\ \E w \in TriggerWrites : IsDelayOf(log[w + 1], 80) /\ IsStatusRead(log[w + 2])

\* C17: poll budget boundary.  When the 10th status read of a loop is the
\* first that satisfies it, the phase succeeds: after the 10th calibration
\* poll the driver is returned (the acquisition goes on to the trigger) and
\* CalibrationFailed is not reported; after the 10th busy poll the 6-byte
\* read is issued, SensorStillBusy is not reported and, failing no bus
\* operation, a Measurement is returned.  No loop issues an 11th read.
PollBudgetBoundary ==
    LET cal == CalReads
        busy == BusyReads
    IN  /\ Cardinality(cal) <= 10
        /\ Cardinality(busy) <= 10
        /\ (calAt = 10 /\ Cardinality(cal) = 10 /\ log[Nth(cal, 10)].ok) =>
              /\ pc \in {"trigger", "wait_busy", "read_data", "done"}
              /\ result.err # "CalibrationFailed"
              /\ (Terminal => TriggerWrites # {})
        /\ (readyAt = 10 /\ Cardinality(busy) = 10 /\ log[Nth(busy, 10)].ok) =>
              /\ pc \in {"read_data", "done"}
              /\ result.err # "SensorStillBusy"
              /\ (Terminal => DataReads # {})
        /\ (Terminal /\ AllOk /\ BusOpened /\ calAt = 10) =>
              /\ result.err # "CalibrationFailed"
              /\ Cardinality(cal) = 10
        /\ (Terminal /\ AllOk /\ TriggerWrites # {} /\ readyAt = 10) =>
              /\ result.tag = "Ok"
              /\ Cardinality(busy) = 10

PollBudgetBoundaryWitness ==
    /\ calAt = 10
    /\ readyAt = 10
    /\ result.tag = "Ok"
    /\ Cardinality(CalReads) = 10
    /\ Cardinality(BusyReads) = 10
    /\ DataReads # {}

\* the time slept over a trace, in ms
RECURSIVE SumMs(_)
SumMs(t) == IF t = <<>> THEN 0 ELSE Head(t).ms + SumMs(Tail(t))
TotalSlept == SumMs(log)
\* the successful reads of a loop before the device's first satisfying answer
Unsatisfied(reads, firstAt) ==
    {i \in reads : log[i].ok /\ Cardinality({j \in reads : j <= i}) < firstAt}
IsSleep(i) == i <= Len(log) /\ log[i].op = "delay"

\* C18: delay accounting.  A status read that succeeds without satisfying
\* its loop is followed by exactly one 10 ms sleep, the 10th included; a
\* satisfying read and a failed bus operation are followed by no sleep.  The
\* time slept is 20 (after a successful reset write) + 10 per unsatisfied
\* calibration poll + 80 (after a successful trigger write) + 10 per
\* unsatisfied busy poll: 120 ms on a calibration timeout, 100 ms when both
\* first polls succeed.
DelayAccounting ==
    LET cal == CalReads
        busy == BusyReads
        uc == Unsatisfied(cal, calAt)
        ub == Unsatisfied(busy, readyAt)
        resetOk == \E w \in ResetWrites : log[w].ok
        triggerOk == \E w \in TriggerWrites : log[w].ok
    IN  /\ \A i \in uc \cup ub :
              /\ i < Len(log)
              /\ IsDelayOf(log[i + 1], 10)
              /\ ~IsSleep(i + 2)
        /\ \A i \in (cal \cup busy) \ (uc \cup ub) : ~IsSleep(i + 1)
        /\ \A i \in DOMAIN log : ~log[i].ok => i = Len(log)
        /\ TotalSlept = (IF resetOk THEN 20 ELSE 0) + 10 * Cardinality(uc)
                          + (IF triggerOk THEN 80 ELSE 0) + 10 * Cardinality(ub)
        /\ triggerOk =>
              TotalSlept = 20 + 10 * Cardinality(uc) + 80 + 10 * Cardinality(ub)
        /\ result.err = "CalibrationFailed" =>
              Cardinality(uc) = 10 /\ TotalSlept = 120
        /\ (result.tag = "Ok" /\ calAt = 1 /\ readyAt = 1) => TotalSlept = 100

DelayAccountingWitness ==
    /\ result.err = "SensorStillBusy"
    /\ calAt = 3
    /\ TotalSlept = 20 + 10 * 2 + 80 + 10 * 10

\* C19: decoded range.  For every sample read, the humidity code and the
\* temperature code lie in 0..2^20-1, so the Measurement returned has
\* 0 <= humidity < 100 and -50 <= temperature < 150, and neither field is
\* 1000.0, the value of the error record.
DecodedRange ==
    result.tag = "Ok" =>
        /\ raw_humidity(buffer) \in 0..(1048576 - 1)
        /\ raw_temp(buffer) \in 0..(1048576 - 1)
        /\ 0 <= result.humidity
        /\ result.humidity < 100 * 1048576
        /\ -50 * 1048576 <= result.temperature
        /\ result.temperature < 150 * 1048576
        /\ read_ahtx0_sensor.humidity # 1000 * 1048576
        /\ read_ahtx0_sensor.temperature # 1000 * 1048576

DecodedRangeWitness ==
    /\ result.tag = "Ok"
    /\ buffer = Pack(1048575, 1048575, 0)
    /\ result.humidity = 104857500
    /\ result.temperature = 157286200

\* C20: bus open failure.  A step that leaves "open" without an opened bus
\* ends the acquisition with the I2c error carrying the cause, with an empty
\* trace: no bus write, no bus read and no delay, hence no reset; and
\* read_ahtx0_sensor then reports status_code -1.  Nothing is written to the
\* trace before the bus is opened.
BusOpenFailure ==
    /\ [][(pc = "open" /\ pc' # "soft_reset") =>
            /\ pc' = "done"
            /\ result'.tag = "Err"
            /\ result'.err = "I2c"
            /\ result'.cause \in I2cCauses
            /\ log' = <<>>
            /\ status' = <<>>
            /\ buffer' = <<>>
            /\ read_ahtx0_sensor'.status_code = -1]_vars
    /\ [](pc = "open" => log = <<>>)
    /\ []((Terminal /\ ~BusOpened) =>
            /\ result.err = "I2c"
            /\ TotalSlept = 0
            /\ ResetWrites = {}
            /\ read_ahtx0_sensor.status_code = -1)

BusOpenFailureWitness ==
    /\ Terminal
    /\ log = <<>>
    /\ result.err = "I2c"
    /\ result.cause = "Nack"
    /\ read_ahtx0_sensor.status_code = -1

====
